---- MODULE Spec2Model ----
(***************************************************************************)
(* Ingest-and-link pipeline of the Telegram crypto-call tracker:           *)
(*   src/src/listener.py          MessageHandler, event_handler            *)
(*   src/src/storage/sqlite.py    SQLiteStorage (primary store)            *)
(*   src/src/storage/multi.py     MultiStorage (multi-sink coordinator)    *)
(*   src/monitor.py               EnhancedProductionStorage (wrapper)      *)
(*   src/src/parser.py            parse_crypto_call                        *)
(*   src/backfill_unparsed_messages.py   BackfillProcessor, main           *)
(*                                                                         *)
(* The asyncio loop is cooperative: one task holds the loop (running) and  *)
(* gives it up only at an await that really suspends (the rate-limit       *)
(* sleep).  The backfill job is another OS process on the same database    *)
(* file: its batches interleave with the steps of the handler.             *)
(***************************************************************************)
EXTENDS Integers, Sequences, FiniteSets, TLC

\* ------------------------------------------------------------------ bounds
MaxEvents == 2        \* events the stream delivers in one behaviour
MaxMsgId == 2         \* Telegram message ids are 1..MaxMsgId
MaxBackfillRuns == 1  \* runs of the backfill job in one behaviour

\* ------------------------------------------------------------- null values
NullId == 0           \* Python None / SQL NULL for an integer id
NULL == "NULL"        \* Python None / SQL NULL for a text column

\* ---------------------------------------------------------------- channels
\* chA, chB: configured active; chI: configured inactive; chU: not configured.
Chats == {"chA", "chB", "chI", "chU"}

channel_configs ==
  [c \in {"chA", "chB", "chI"} |->
     [channel_name |-> CASE c = "chA" -> "A" [] c = "chB" -> "B" [] OTHER -> "I",
      is_active    |-> (c # "chI"),
      rate_limit   |-> IF c = "chA" THEN 10 ELSE 0]]

\* message.chat.title, the name the raw row carries.  chA's title is its
\* configured channel_name, chB's is not.
Title(chat) == CASE chat = "chA" -> "A" [] chat = "chB" -> "Bt"
                 [] chat = "chI" -> "I" [] OTHER -> "U"

is_channel_active_as_configured(chat) == chat \in DOMAIN channel_configs

is_channel_active(chat) ==
  chat \in DOMAIN channel_configs /\ channel_configs[chat].is_active

\* ------------------------------------------------------------------- texts
\* Representative message texts.
\*   junk      "gm everyone"
\*   disc      "[Bean Cabal (CABAL)](http://x) `944X..pump` `Cap:` **45.9K**"
\*   discBlank "[ ](http://x) `944X..pump` `Cap:` **45.9K**"
\*   upd       "(fire) 5.4x(6.6x from VIP) | From 45.9K (arrow) 247.9K within 5d"
\*   updNoVip  "(party) 2.6x | From 45.9K (arrow) 115.0K within 8m"
\*   bond      "XYZ has bonded - achieved milestone"
\*   bondOnly  "XYZ has bonded"
\*   legacy    "$T2 Entry: 45K MC Peak: 180K MC (4x)"
Texts == {"junk", "disc", "discBlank", "upd", "updNoVip", "bond", "bondOnly", "legacy"}

\* What the substring tests of is_crypto_call_message see in each text.
Surface(text) ==
  [cap      |-> text \in {"disc", "discBlank"},
   bracket  |-> text \in {"disc", "discBlank", "upd", "legacy"},
   digit    |-> text \in {"disc", "discBlank", "upd", "updNoVip", "legacy"},
   entry    |-> text = "legacy",
   peak     |-> text = "legacy",
   glyph    |-> text \in {"upd", "updNoVip"},
   from     |-> text \in {"upd", "updNoVip"},
   arrow    |-> text \in {"upd", "updNoVip"},
   bonded   |-> text \in {"bond", "bondOnly"},
   achieved |-> text = "bond",
   x        |-> text \in {"disc", "discBlank", "upd", "updNoVip", "legacy"},
   mc       |-> text = "legacy",
   symbol   |-> text = "legacy"]

is_crypto_call_message(text) ==
  LET f == Surface(text)
      has_discovery_format == f.cap /\ f.bracket /\ f.digit
      has_result_format    == f.entry /\ f.peak
      has_update_format    == f.glyph /\ f.from /\ f.arrow /\ f.digit
      has_bonding_format   == f.bonded /\ f.achieved
      has_multiplier       == f.x /\ f.digit
      has_mc               == f.mc
      has_crypto_symbols   == f.symbol
  IN  \/ has_discovery_format
      \/ (has_result_format /\ (has_multiplier \/ has_mc \/ has_crypto_symbols))
      \/ has_update_format
      \/ has_bonding_format

\* What the regular expressions of the parser match in each text.
\* vip and regular are the two patterns of _parse_update_message: both
\* contain the group "(<Y>x from VIP)".  token is the bracketed name after
\* strip(): "" for the blank name.  Numbers are kept as their text.
Matches(text) ==
  [vip       |-> text = "upd",
   regular   |-> text = "upd",
   discovery |-> text \in {"disc", "discBlank"},
   token     |-> CASE text = "disc" -> "T1" [] text = "discBlank" -> ""
                   [] text = "legacy" -> "T2" [] OTHER -> NULL,
   contract  |-> IF text \in {"disc", "discBlank"} THEN "K1" ELSE NULL,
   entry     |-> CASE text \in {"disc", "discBlank", "upd", "updNoVip"} -> "45.9K"
                   [] text = "legacy" -> "45K" [] OTHER -> NULL,
   x         |-> CASE text = "upd" -> "5.4" [] text = "updNoVip" -> "2.6"
                   [] text = "legacy" -> "4.0" [] OTHER -> NULL,
   vip_x     |-> IF text = "upd" THEN "6.6" ELSE NULL,
   bonded    |-> text \in {"bond", "bondOnly"},
   fallback  |-> text = "legacy"]

NoParse == [message_type |-> "none", token_name |-> NULL, contract_address |-> NULL,
            entry_cap |-> NULL, x_gain |-> NULL, vip_x |-> NULL]

_parse_update_message(text) ==
  IF Matches(text).vip
  THEN [message_type |-> "update", token_name |-> NULL, contract_address |-> NULL,
        entry_cap |-> Matches(text).entry, x_gain |-> Matches(text).x,
        vip_x |-> Matches(text).vip_x]
  ELSE IF Matches(text).regular
  THEN [message_type |-> "update", token_name |-> NULL, contract_address |-> NULL,
        entry_cap |-> Matches(text).entry, x_gain |-> Matches(text).x,
        vip_x |-> NULL]
  ELSE NoParse

\* A discovery has x_gain 1.0 and its Cap as entry_cap.
_parse_discovery_message(text) ==
  IF Matches(text).discovery
  THEN [message_type |-> "discovery", token_name |-> Matches(text).token,
        contract_address |-> Matches(text).contract,
        entry_cap |-> Matches(text).entry, x_gain |-> "1.0", vip_x |-> NULL]
  ELSE NoParse

_parse_fallback_format(text) ==
  IF Matches(text).fallback
  THEN [message_type |-> "update", token_name |-> Matches(text).token,
        contract_address |-> NULL,
        entry_cap |-> Matches(text).entry, x_gain |-> Matches(text).x,
        vip_x |-> NULL]
  ELSE NoParse

parse_crypto_call(text) ==
  IF _parse_update_message(text) # NoParse THEN _parse_update_message(text)
  ELSE IF _parse_discovery_message(text) # NoParse THEN _parse_discovery_message(text)
  ELSE IF Matches(text).bonded
       THEN [message_type |-> "bonding", token_name |-> NULL, contract_address |-> NULL,
             entry_cap |-> NULL, x_gain |-> NULL, vip_x |-> NULL]
  ELSE _parse_fallback_format(text)

\* Python truthiness of a text value: None and "" are both falsy.
Truthy(s) == s # NULL /\ s # ""

\* ------------------------------------------------------------------- state
VARIABLES
  storageKind,       \* class of the object given to MessageHandler as storage
  sinks,             \* secondary sinks MultiStorage was configured with
  crypto_calls,      \* table crypto_calls of the primary store, in id order
  raw_messages,      \* table raw_messages of the primary store (a set of rows)
  raw_seq,           \* AUTOINCREMENT counter of raw_messages
  excel_rows,        \* rows of the Excel sink
  sheets_rows,       \* rows of the Google Sheets sink
  tasks,             \* one event_handler task per delivered event
  n_events,          \* events delivered so far
  running,           \* the task that holds the event loop, 0 when it is free
  pending_messages,  \* MessageHandler.pending_messages (task slots)
  bf,                \* the backfill job (BackfillProcessor and main's loop)
  last_append,       \* history: what the last MultiStorage.append_row did
  ever_stored,       \* history: raw keys store_raw_message has committed
  probe,             \* the last direct call of link_to_discovery_call
  sup                \* TelegramListener: connection state and its calls

vars == <<storageKind, sinks, crypto_calls, raw_messages, raw_seq, excel_rows,
          sheets_rows, tasks, n_events, running, pending_messages, bf,
          last_append, ever_stored, probe, sup>>

StorageKinds == {"sqlite", "multi", "enhanced"}
Slots == 1..MaxEvents

\* The task of process_pending, the drain of shutdown_gracefully, takes the
\* slot after those of the event handler tasks.
DrainSlot == MaxEvents + 1
TaskIds == Slots \cup {DrainSlot}
MsgIds == 1..MaxMsgId

\* reply_to.reply_to_msg_id of a message: none, or an earlier message of the
\* chat (Telegram numbers the messages of a chat in increasing order).
ReplyTargets(id) == {NullId} \cup {r \in MsgIds : r < id}

NoLink == [message_type |-> "none", token_name |-> NULL, contract_address |-> NULL,
           entry_cap |-> NULL, x_gain |-> NULL, vip_x |-> NULL,
           linked_crypto_call_id |-> NullId]

NoTask == [msg |-> [chat_id |-> "chU", id |-> 1, text |-> "junk", reply_to |-> NullId],
           pc |-> "unborn", parsed_data |-> NoLink, outcome |-> "none",
           attempt |-> 0, ops |-> <<>>]

\* hasattr(self.storage, 'store_raw_message'): SQLiteStorage and MultiStorage
\* define it, EnhancedProductionStorage does not.
HasStoreRaw(kind) == kind \in {"sqlite", "multi"}

\* Only SQLiteStorage defines get_crypto_call_by_message_id and
\* get_crypto_call_by_id; on the others the call raises AttributeError.
HasLookup(kind) == kind = "sqlite"

NoBackfill == [pc |-> "idle", dry_run |-> FALSE, total_processed |-> 0, runs |-> 0,
               messages |-> <<>>, i |-> 0, todo |-> {}, seen |-> {},
               duplicate |-> FALSE]

NoAppend == [called |-> FALSE, accepted |-> {}, raised |-> FALSE]

NoProbe == [called |-> FALSE]

\* TelegramListener.__init__: is_connected = client.is_connected(), False for
\* a new client.  The other fields describe the call in progress:
\*   pc            "idle", or "reconnect" inside the loop of auto_reconnect
\*   max_retries   argument of the running auto_reconnect
\*   i             loop index of auto_reconnect
\*   attempts      connect() calls made by the running auto_reconnect
\*   last_connect  how the last connect() ended
\*   auth_failed   a connect() of the running auto_reconnect hit AuthKeyError
\*   returned      "none", or the call that returned last
\*   result        its return value
\*   calls         calls made on the listener so far
NoSupervisor ==
  [is_connected |-> FALSE, client_connected |-> FALSE, message_handler |-> FALSE,
   registered |-> FALSE, listening |-> FALSE, pc |-> "idle", caller |-> "none",
   max_retries |-> 0, i |-> 0, delay |-> 0,
   attempts |-> 0, failed |-> 0, attempts_after_auth |-> 0, auth_failed |-> FALSE,
   last_connect |-> "none", op |-> "none", result |-> FALSE, calls |-> 0,
   client_disconnects |-> 0,
   sd_pc |-> "none", sd_connected |-> FALSE, sd_stop_raised |-> FALSE,
   sd_k |-> 0, sd_current |-> 0, sd_pending |-> {}, sd_handled |-> {},
   sd_timeout |-> FALSE]

\* The state after construction, for a given handler storage and sink set.
InitWith(kinds, sinkSets) ==
  /\ storageKind \in kinds
  /\ sinks \in sinkSets
  /\ bf = NoBackfill
  /\ last_append = NoAppend
  /\ probe = NoProbe
  /\ sup = NoSupervisor
  /\ crypto_calls = <<>>
  /\ raw_messages = {}
  /\ raw_seq = 0
  /\ excel_rows = <<>>
  /\ sheets_rows = <<>>
  /\ tasks = [t \in TaskIds |-> NoTask]
  /\ n_events = 0
  /\ running = 0
  /\ pending_messages = <<>>
  /\ ever_stored = {}

\* The handler writes straight to SQLiteStorage (the primary store).
Init == InitWith({"sqlite"}, {{}})

\* ------------------------------------------------------------ primary store
\* INSERT INTO crypto_calls: id is the AUTOINCREMENT key, rows are never deleted.
SQLite_append_row(cc, data) ==
  Append(cc, [id |-> Len(cc) + 1,
              token_name |-> data.token_name,
              message_type |-> data.message_type,
              contract_address |-> data.contract_address,
              entry_cap |-> data.entry_cap,
              x_gain |-> data.x_gain,
              vip_x |-> data.vip_x,
              message_id |-> data.message_id,
              channel_name |-> data.channel_name,
              linked_crypto_call_id |-> data.linked_crypto_call_id])

\* SELECT id FROM crypto_calls WHERE message_id = ? LIMIT 1: the table is
\* scanned in rowid order, so the lowest matching id is returned.
get_crypto_call_by_message_id(cc, message_id) ==
  LET hits == {i \in 1..Len(cc) : cc[i].message_id = message_id}
  IN  IF hits = {} THEN NullId
      ELSE CHOOSE i \in hits : \A j \in hits : i <= j

\* SELECT * FROM crypto_calls WHERE id = ? LIMIT 1
get_crypto_call_by_id(cc, call_id) ==
  IF call_id \in 1..Len(cc) THEN cc[call_id] ELSE NoLink

RawKey(row) == <<row.channel_id, row.message_id>>

\* INSERT OR REPLACE INTO raw_messages under UNIQUE(message_id, channel_id):
\* rows that conflict on the key are deleted, then the new row is inserted
\* with a fresh rowid and the column defaults.
store_raw_message_as_plain_insert(raw, seq, data) ==
  raw \cup {[id |-> seq + 1,
             message_id |-> data.message_id,
             channel_id |-> data.channel_id,
             channel_name |-> data.channel_name,
             message_text |-> data.message_text,
             reply_to_message_id |-> data.reply_to_message_id,
             is_classified |-> FALSE,
             classification_result |-> NULL]}

store_raw_message(raw, seq, data) ==
  {r \in raw : ~(r.message_id = data.message_id /\ r.channel_id = data.channel_id)}
  \cup {[id |-> seq + 1,
         message_id |-> data.message_id,
         channel_id |-> data.channel_id,
         channel_name |-> data.channel_name,
         message_text |-> data.message_text,
         reply_to_message_id |-> data.reply_to_message_id,
         is_classified |-> FALSE,
         classification_result |-> NULL]}

\* ------------------------------------------------------- multi-sink fan-out
\* The ways the sinks can fail during one append_row: "sqlite", "excel" and
\* "sheets" raise before anything is written; "excel_save" writes the cells of
\* the new worksheet row and then raises from _save_workbook.
FailureSets == {f \in SUBSET {"sqlite", "excel", "excel_save", "sheets"} :
                  ~({"excel", "excel_save"} \subseteq f)}

\* if success_count == 0: raise Exception("All storage operations failed")
MultiStorage_raises_as_first_sink_only(sq_ok, ex_ok, sh_ok) == ~sq_ok

MultiStorage_raises(sq_ok, ex_ok, sh_ok) ==
  LET success_count == (IF sq_ok THEN 1 ELSE 0) + (IF ex_ok THEN 1 ELSE 0)
                       + (IF sh_ok THEN 1 ELSE 0)
  IN  success_count = 0

\* MultiStorage.append_row(data): SQLite first, then Excel and Google Sheets
\* when configured; every sink is tried whatever the earlier ones did.
MultiStorage_append_row(cc, ex, sh, cfg, data, fails) ==
  LET sq_ok == "sqlite" \notin fails
      ex_ok == "excel" \in cfg /\ "excel" \notin fails /\ "excel_save" \notin fails
      ex_written == "excel" \in cfg /\ "excel" \notin fails
      sh_ok == "sheets" \in cfg /\ "sheets" \notin fails
  IN  [crypto_calls |-> IF sq_ok THEN SQLite_append_row(cc, data) ELSE cc,
       excel_rows   |-> IF ex_written THEN Append(ex, data) ELSE ex,
       sheets_rows  |-> IF sh_ok THEN Append(sh, data) ELSE sh,
       accepted     |-> (IF sq_ok THEN {"sqlite"} ELSE {})
                        \cup (IF ex_ok THEN {"excel"} ELSE {})
                        \cup (IF sh_ok THEN {"sheets"} ELSE {}),
       raised       |-> MultiStorage_raises(sq_ok, ex_ok, sh_ok)]

\* storage.append_row(data) as the handler sees it, by class of storage.
\*   sqlite:   SQLiteStorage.append_row, raises on sqlite3.Error
\*   multi:    MultiStorage.append_row
\*   enhanced: EnhancedProductionStorage.append_row, which calls
\*             MultiStorage.append_row inside try/except and never raises
Storage_append_row(kind, cc, ex, sh, cfg, data, fails) ==
  LET m == MultiStorage_append_row(cc, ex, sh, cfg, data, fails)
  IN  CASE kind = "sqlite" ->
             [crypto_calls |-> IF "sqlite" \in fails THEN cc
                               ELSE SQLite_append_row(cc, data),
              excel_rows |-> ex, sheets_rows |-> sh,
              accepted |-> IF "sqlite" \in fails THEN {} ELSE {"sqlite"},
              raised |-> "sqlite" \in fails, multi |-> "none"]
        [] kind = "multi" ->
             [crypto_calls |-> m.crypto_calls, excel_rows |-> m.excel_rows,
              sheets_rows |-> m.sheets_rows, accepted |-> m.accepted,
              raised |-> m.raised,
              multi |-> IF m.raised THEN "multi_raise" ELSE "multi_ok"]
        [] OTHER ->
             [crypto_calls |-> m.crypto_calls, excel_rows |-> m.excel_rows,
              sheets_rows |-> m.sheets_rows, accepted |-> m.accepted,
              raised |-> FALSE,
              multi |-> IF m.raised THEN "multi_raise" ELSE "multi_ok"]

\* The failures that can happen with the configured sinks.
PossibleFailures(kind, cfg) ==
  {f \in FailureSets :
     f \subseteq ({"sqlite"}
                  \cup (IF kind # "sqlite" /\ "excel" \in cfg
                        THEN {"excel", "excel_save"} ELSE {})
                  \cup (IF kind # "sqlite" /\ "sheets" \in cfg
                        THEN {"sheets"} ELSE {}))}

\* ----------------------------------------------------------- ingest handler
max_retries == 3      \* handle_message_with_retry(message, max_retries=3)

StoreVars == <<crypto_calls, raw_messages, raw_seq, excel_rows, sheets_rows,
               ever_stored>>
ConfigVars == <<storageKind, sinks, bf, last_append, probe, sup>>
HandlerVars == <<tasks, n_events, running, pending_messages>>

Log(task, op) == [task EXCEPT !.ops = Append(@, op)]

\* raw_message_data built by handle_message before store_raw_message.
raw_message_data(msg) ==
  [message_id |-> msg.id, channel_id |-> msg.chat_id,
   channel_name |-> Title(msg.chat_id), message_text |-> msg.text,
   reply_to_message_id |-> msg.reply_to]

\* Inheritance of the live handler: only token_name, only when the parsed
\* value is falsy and the parent's is not.
Handler_inherit(parsed_data, original_call) ==
  IF ~Truthy(parsed_data.token_name) /\ Truthy(original_call.token_name)
  THEN [parsed_data EXCEPT !.token_name = original_call.token_name]
  ELSE parsed_data

\* A linking block that takes the id the new row is going to get.
Handler_link_as_self_link(cc, msg, parsed_data) ==
  IF msg.reply_to # NullId
  THEN [parsed_data EXCEPT !.linked_crypto_call_id = Len(cc) + 1]
  ELSE parsed_data

\* The linking block of handle_message, for lookups that do not raise.
Handler_link(cc, msg, parsed_data) ==
  IF msg.reply_to # NullId
  THEN LET original_call_id == get_crypto_call_by_message_id(cc, msg.reply_to)
       IN  IF original_call_id # NullId
           THEN Handler_inherit(
                  [parsed_data EXCEPT !.linked_crypto_call_id = original_call_id],
                  get_crypto_call_by_id(cc, original_call_id))
           ELSE parsed_data
  ELSE parsed_data

\* storage_data handed to storage.append_row.
storage_data(msg, parsed_data) ==
  [token_name |-> parsed_data.token_name,
   message_type |-> parsed_data.message_type,
   contract_address |-> parsed_data.contract_address,
   entry_cap |-> parsed_data.entry_cap,
   x_gain |-> parsed_data.x_gain,
   vip_x |-> parsed_data.vip_x,
   linked_crypto_call_id |-> parsed_data.linked_crypto_call_id,
   message_id |-> msg.id,
   channel_name |-> channel_configs[msg.chat_id].channel_name]

\* handle_message_with_retry is called for a message: by event_handler, which
\* the dispatcher starts as a task for every new event and which adds the
\* message to pending_messages first, or directly with a message of any chat.
Deliver(chat, id, text, reply_to) ==
  /\ running = 0
  /\ n_events < MaxEvents
  /\ tasks' = [tasks EXCEPT ![n_events + 1] =
                 [NoTask EXCEPT !.msg = [chat_id |-> chat, id |-> id, text |-> text,
                                         reply_to |-> reply_to],
                                !.pc = "admit"]]
  /\ pending_messages' = Append(pending_messages, n_events + 1)
  /\ running' = n_events + 1
  /\ n_events' = n_events + 1
  /\ UNCHANGED <<StoreVars, ConfigVars>>

\* Admission: if not self.is_channel_active(message.chat_id): return False
Admit(t) ==
  /\ running = t /\ tasks[t].pc = "admit"
  /\ tasks' = [tasks EXCEPT ![t] =
       IF is_channel_active(tasks[t].msg.chat_id)
       THEN [@ EXCEPT !.pc = "raw"]
       ELSE [@ EXCEPT !.pc = "ret", !.outcome = "False"]]
  /\ UNCHANGED <<StoreVars, ConfigVars, n_events, running, pending_messages>>

\* Raw persist: store_raw_message inside its own try/except; a failure is
\* logged and the handler goes on.
RawPersist(t) ==
  /\ running = t /\ tasks[t].pc = "raw"
  /\ IF HasStoreRaw(storageKind)
     THEN \E fail \in BOOLEAN :
            IF fail
            THEN /\ tasks' = [tasks EXCEPT ![t] =
                                Log([@ EXCEPT !.pc = "classify"], "raw_fail")]
                 /\ UNCHANGED <<raw_messages, raw_seq, ever_stored>>
            ELSE /\ raw_messages' = store_raw_message(raw_messages, raw_seq,
                                                     raw_message_data(tasks[t].msg))
                 /\ raw_seq' = raw_seq + 1
                 /\ ever_stored' = ever_stored \cup
                                     {<<tasks[t].msg.chat_id, tasks[t].msg.id>>}
                 /\ tasks' = [tasks EXCEPT ![t] =
                                Log([@ EXCEPT !.pc = "classify"], "raw_ok")]
     ELSE /\ tasks' = [tasks EXCEPT ![t] =
                         Log([@ EXCEPT !.pc = "classify"], "raw_unsupported")]
          /\ UNCHANGED <<raw_messages, raw_seq, ever_stored>>
  /\ UNCHANGED <<crypto_calls, excel_rows, sheets_rows, ConfigVars, n_events,
                 running, pending_messages>>

\* parsed_data with the key linked_crypto_call_id.
WithLink(parsed, linked_call_id) ==
  [message_type |-> parsed.message_type,
   token_name |-> parsed.token_name,
   contract_address |-> parsed.contract_address,
   entry_cap |-> parsed.entry_cap,
   x_gain |-> parsed.x_gain,
   vip_x |-> parsed.vip_x,
   linked_crypto_call_id |-> linked_call_id]

\* What the classify-and-parse block of handle_message decides for a text:
\*   "reject"  is_crypto_call_message is False, the parser is not called
\*   "raise"   parse_crypto_call raises, the inner except catches it
\*   "nomatch" parse_crypto_call returns None
\*   "parsed"  the record goes on to linking and fan-out
Handler_classify_as_no_none_check(text, parser_raises) ==
  IF ~is_crypto_call_message(text) THEN "reject"
  ELSE IF parser_raises THEN "raise"
  ELSE "parsed"

Handler_classify(text, parser_raises) ==
  IF ~is_crypto_call_message(text) THEN "reject"
  ELSE IF parser_raises THEN "raise"
  ELSE IF parse_crypto_call(text) = NoParse THEN "nomatch"
  ELSE "parsed"

\* Classify and parse: is_crypto_call_message, then parse_crypto_call.
ClassifyParse(t) ==
  /\ running = t /\ tasks[t].pc = "classify"
  /\ \E parser_raises \in BOOLEAN :
       LET text == tasks[t].msg.text
           decision == Handler_classify(text, parser_raises)
       IN  tasks' = [tasks EXCEPT ![t] =
             CASE decision = "reject" ->
                    [@ EXCEPT !.pc = "ret", !.outcome = "False"]
               [] decision = "raise" ->
                    Log([@ EXCEPT !.pc = "ret", !.outcome = "False"], "parse_raise")
               [] decision = "nomatch" ->
                    Log([@ EXCEPT !.pc = "ret", !.outcome = "False"], "parse")
               [] OTHER ->
                    Log([@ EXCEPT !.pc = "link",
                                  !.parsed_data =
                                     WithLink(parse_crypto_call(text), NullId)],
                        "parse")]
  /\ UNCHANGED <<StoreVars, ConfigVars, n_events, running, pending_messages>>

\* Link and inherit.  A storage without the lookup methods raises
\* AttributeError, a lookup can raise sqlite3.Error: both are caught by the
\* inner except of handle_message, which returns False.
Link(t) ==
  /\ running = t /\ tasks[t].pc = "link"
  /\ IF tasks[t].msg.reply_to = NullId
     THEN tasks' = [tasks EXCEPT ![t] = [@ EXCEPT !.pc = "rate"]]
     ELSE IF ~HasLookup(storageKind)
     THEN tasks' = [tasks EXCEPT ![t] =
                      Log([@ EXCEPT !.pc = "ret", !.outcome = "False"], "lookup_raise")]
     ELSE \E fail \in BOOLEAN :
            tasks' = [tasks EXCEPT ![t] =
              IF fail
              THEN Log([@ EXCEPT !.pc = "ret", !.outcome = "False"], "lookup_raise")
              ELSE Log([@ EXCEPT !.pc = "rate",
                                 !.parsed_data = Handler_link(crypto_calls,
                                                   tasks[t].msg, tasks[t].parsed_data)],
                       "lookup")]
  /\ UNCHANGED <<StoreVars, ConfigVars, n_events, running, pending_messages>>

\* apply_rate_limit: asyncio.sleep(60 / rate_limit) when rate_limit > 0; the
\* task gives up the loop only then.
RateLimit(t) ==
  /\ running = t /\ tasks[t].pc = "rate"
  /\ IF channel_configs[tasks[t].msg.chat_id].rate_limit > 0
     THEN /\ tasks' = [tasks EXCEPT ![t] = [@ EXCEPT !.pc = "sleep"]]
          /\ running' = 0
     ELSE /\ tasks' = [tasks EXCEPT ![t] = [@ EXCEPT !.pc = "append"]]
          /\ UNCHANGED running
  /\ UNCHANGED <<StoreVars, ConfigVars, n_events, pending_messages>>

\* The sleep ends.  Timers of equal delay fire in the order they were set.
Wake(t) ==
  /\ running = 0 /\ tasks[t].pc = "sleep"
  /\ \A u \in Slots :
       (u < t /\ tasks[u].pc = "sleep")
         => channel_configs[tasks[u].msg.chat_id].rate_limit
              # channel_configs[tasks[t].msg.chat_id].rate_limit
  /\ tasks' = [tasks EXCEPT ![t] = [@ EXCEPT !.pc = "append"]]
  /\ running' = t
  /\ UNCHANGED <<StoreVars, ConfigVars, n_events, pending_messages>>

\* Fan-out: self.storage.append_row(storage_data); an exception is caught by
\* the inner except and handle_message returns False.
AppendRow(t) ==
  /\ running = t /\ tasks[t].pc = "append"
  /\ \E fails \in PossibleFailures(storageKind, sinks) :
       LET r == Storage_append_row(storageKind, crypto_calls, excel_rows,
                  sheets_rows, sinks,
                  storage_data(tasks[t].msg, tasks[t].parsed_data), fails)
           logged == IF r.multi = "none" THEN tasks[t] ELSE Log(tasks[t], r.multi)
       IN  /\ crypto_calls' = r.crypto_calls
           /\ excel_rows' = r.excel_rows
           /\ sheets_rows' = r.sheets_rows
           /\ last_append' = IF storageKind = "sqlite" THEN last_append
                              ELSE [called |-> TRUE, accepted |-> r.accepted,
                                    raised |-> (r.multi = "multi_raise")]
           /\ tasks' = [tasks EXCEPT ![t] =
                IF r.raised
                THEN Log([logged EXCEPT !.pc = "ret", !.outcome = "False"],
                         "append_raise")
                ELSE Log([logged EXCEPT !.pc = "ret", !.outcome = "True"],
                         "append_ok")]
  /\ UNCHANGED <<raw_messages, raw_seq, ever_stored, storageKind, sinks, bf,
                 probe, sup, n_events, running, pending_messages>>

\* pending_messages.remove(message): the first occurrence goes.
RemoveFirst(seq, x) ==
  LET idx == {i \in 1..Len(seq) : seq[i] = x}
  IN  IF idx = {} THEN seq
      ELSE LET k == CHOOSE i \in idx : \A j \in idx : i <= j
           IN  SubSeq(seq, 1, k - 1) \o SubSeq(seq, k + 1, Len(seq))

\* handle_message has ended.  handle_message_with_retry runs it again only
\* when it raised and attempts are left (after the backoff sleep); otherwise
\* it returns handle_message's value, False once the attempts are used up.
RetryOrReturn(t) ==
  /\ running = t /\ tasks[t].pc = "ret"
  /\ tasks' = [tasks EXCEPT ![t] =
       IF tasks[t].outcome = "raise" /\ tasks[t].attempt < max_retries
       THEN [@ EXCEPT !.pc = "admit", !.attempt = @ + 1, !.outcome = "none"]
       ELSE [@ EXCEPT !.pc = "remove",
                      !.outcome = IF @ = "raise" THEN "False" ELSE @]]
  /\ UNCHANGED <<StoreVars, ConfigVars, n_events, running, pending_messages>>

\* event_handler's last statement, pending_messages.remove(message); the task
\* ends and its locals are gone.  list.remove raises ValueError when the
\* message is no longer in the list; the task then ends with that exception.
Finish(t) ==
  /\ running = t /\ tasks[t].pc = "remove"
  /\ tasks' = [tasks EXCEPT ![t] =
       [NoTask EXCEPT !.pc = "done",
                      !.outcome = IF \E k \in 1..Len(pending_messages) :
                                       pending_messages[k] = t
                                  THEN "none" ELSE "ValueError"]]
  /\ pending_messages' = RemoveFirst(pending_messages, t)
  /\ running' = 0
  /\ UNCHANGED <<StoreVars, ConfigVars, n_events>>

\* ------------------------------------------------------------ backfill job
BatchSize == 1        \* --batch: rows fetched per batch

\* ORDER BY rm.message_date DESC: message_date follows the message id; rows
\* of equal date come in rowid order.
RECURSIVE SortByDateDesc(_)
SortByDateDesc(rows) ==
  IF rows = {} THEN <<>>
  ELSE LET first == CHOOSE r \in rows :
                      \A q \in rows : \/ r.message_id > q.message_id
                                      \/ (r.message_id = q.message_id /\ r.id <= q.id)
       IN  <<first>> \o SortByDateDesc(rows \ {first})

\* get_unparsed_messages: raw rows LEFT JOINed to crypto_calls ON message_id
\* alone, kept when no call matches, newest first, LIMIT batch OFFSET offset.
\* Every raw row of the model lies inside the lookback window.
get_unparsed_messages(raw, cc, batch_size, offset) ==
  LET unparsed == {r \in raw : \A i \in 1..Len(cc) : cc[i].message_id # r.message_id}
      sorted == SortByDateDesc(unparsed)
  IN  SubSeq(sorted, offset + 1,
             IF offset + batch_size < Len(sorted) THEN offset + batch_size
             ELSE Len(sorted))

\* The rows a heuristic lookup of link_to_discovery_call selects for a column
\* value: message_type 'discovery', the raw row's channel_name, the value
\* (token names compared through LOWER), timestamp within the last 24 hours.
\* The clock is not modelled: recent is the set of row ids whose timestamp
\* lies in that window when the query runs.
HeuristicHits(cc, channel_name, column, value, recent) ==
  {i \in 1..Len(cc) : /\ i \in recent
                      /\ cc[i].message_type = "discovery"
                      /\ cc[i].channel_name = channel_name
                      /\ IF column = "contract_address"
                         THEN cc[i].contract_address = value
                         ELSE cc[i].token_name = value}

link_to_discovery_call_as_name_before_contract(cc, raw_message, parsed_data, recent) ==
  IF parsed_data.message_type = "discovery" THEN {NullId}
  ELSE LET by_reply == IF raw_message.reply_to_message_id # NullId
                       THEN get_crypto_call_by_message_id(cc,
                              raw_message.reply_to_message_id)
                       ELSE NullId
           by_contract == IF Truthy(parsed_data.contract_address)
                          THEN HeuristicHits(cc, raw_message.channel_name,
                                 "contract_address", parsed_data.contract_address,
                                 recent)
                          ELSE {}
           by_name == IF Truthy(parsed_data.token_name)
                      THEN HeuristicHits(cc, raw_message.channel_name,
                             "token_name", parsed_data.token_name, recent)
                      ELSE {}
       IN  IF by_reply # NullId THEN {by_reply}
           ELSE IF by_name # {} THEN by_name
           ELSE IF by_contract # {} THEN by_contract
           ELSE {NullId}

link_to_discovery_call_as_with_cap_match(cc, raw_message, parsed_data, recent) ==
  IF parsed_data.message_type = "discovery" THEN {NullId}
  ELSE LET by_reply == IF raw_message.reply_to_message_id # NullId
                       THEN get_crypto_call_by_message_id(cc,
                              raw_message.reply_to_message_id)
                       ELSE NullId
           by_contract == IF Truthy(parsed_data.contract_address)
                          THEN HeuristicHits(cc, raw_message.channel_name,
                                 "contract_address", parsed_data.contract_address,
                                 recent)
                          ELSE {}
           by_name == IF Truthy(parsed_data.token_name)
                      THEN HeuristicHits(cc, raw_message.channel_name,
                             "token_name", parsed_data.token_name, recent)
                      ELSE {}
           by_cap == {i \in 1..Len(cc) : /\ i \in recent
                                         /\ cc[i].message_type = "discovery"
                                         /\ cc[i].channel_name = raw_message.channel_name
                                         /\ cc[i].entry_cap = parsed_data.entry_cap}
       IN  IF by_reply # NullId THEN {by_reply}
           ELSE IF by_contract # {} THEN by_contract
           ELSE IF by_name # {} THEN by_name
           ELSE IF by_cap # {} THEN by_cap
           ELSE {NullId}

\* link_to_discovery_call: the ids it can return.  Priority: reply reference,
\* exact contract address, exact token name; the first lookup that has a row
\* decides.  ORDER BY timestamp DESC LIMIT 1 picks the newest selected row;
\* timestamps are not modelled, so any selected row can be the one.
link_to_discovery_call(cc, raw_message, parsed_data, recent) ==
  IF parsed_data.message_type = "discovery" THEN {NullId}
  ELSE LET by_reply == IF raw_message.reply_to_message_id # NullId
                       THEN get_crypto_call_by_message_id(cc,
                              raw_message.reply_to_message_id)
                       ELSE NullId
           by_contract == IF Truthy(parsed_data.contract_address)
                          THEN HeuristicHits(cc, raw_message.channel_name,
                                 "contract_address", parsed_data.contract_address,
                                 recent)
                          ELSE {}
           by_name == IF Truthy(parsed_data.token_name)
                      THEN HeuristicHits(cc, raw_message.channel_name,
                             "token_name", parsed_data.token_name, recent)
                      ELSE {}
       IN  IF by_reply # NullId THEN {by_reply}
           ELSE IF by_contract # {} THEN by_contract
           ELSE IF by_name # {} THEN by_name
           ELSE {NullId}

\* inherit_discovery_data: token_name and contract_address are filled from the
\* discovery row when the parsed value is falsy and the row's is not.
inherit_discovery_data(cc, parsed_data, discovery_id) ==
  IF discovery_id = NullId \/ discovery_id \notin 1..Len(cc) THEN parsed_data
  ELSE LET row == cc[discovery_id]
           named == IF ~Truthy(parsed_data.token_name) /\ Truthy(row.token_name)
                    THEN [parsed_data EXCEPT !.token_name = row.token_name]
                    ELSE parsed_data
       IN  IF ~Truthy(named.contract_address) /\ Truthy(row.contract_address)
           THEN [named EXCEPT !.contract_address = row.contract_address]
           ELSE named

\* prepare_storage_record
prepare_storage_record(raw_message, parsed_data, linked_call_id) ==
  [token_name |-> parsed_data.token_name,
   message_type |-> parsed_data.message_type,
   contract_address |-> parsed_data.contract_address,
   entry_cap |-> parsed_data.entry_cap,
   x_gain |-> parsed_data.x_gain,
   vip_x |-> parsed_data.vip_x,
   linked_crypto_call_id |-> linked_call_id,
   message_id |-> raw_message.message_id,
   channel_name |-> raw_message.channel_name]

\* mark_processed_messages: UPDATE raw_messages SET is_classified = 1,
\* classification_result = 'backfilled' WHERE message_id IN (ids of the batch)
mark_processed_messages(raw, messages) ==
  LET message_ids == {messages[k].message_id : k \in 1..Len(messages)}
  IN  {IF r.message_id \in message_ids
       THEN [r EXCEPT !.is_classified = TRUE, !.classification_result = "backfilled"]
       ELSE r : r \in raw}

LiveVars == <<tasks, n_events, running, pending_messages, last_append, probe, sup,
              storageKind, sinks, excel_rows, sheets_rows, raw_seq, ever_stored>>

\* main(): a run of the job starts (with or without --dry-run).
BackfillStart(dry_run) ==
  /\ bf.pc = "idle" /\ bf.runs < MaxBackfillRuns
  /\ bf' = [bf EXCEPT !.pc = "loop", !.dry_run = dry_run, !.total_processed = 0]
  /\ UNCHANGED <<LiveVars, crypto_calls, raw_messages>>

\* process_batch over messages[i..]: each message is parsed, linked, enriched
\* and inserted (not in a dry run); an exception of one insert is counted and
\* the loop goes on.  The value is the set of tables the batch can leave.
RECURSIVE process_batch(_, _, _, _)
process_batch(cc, messages, i, dry_run) ==
  IF i > Len(messages) THEN {cc}
  ELSE LET raw_message == messages[i]
           parsed == parse_crypto_call(raw_message.message_text)
           after == IF parsed = NoParse \/ dry_run THEN {cc}
                    ELSE {cc} \cup
                         {SQLite_append_row(cc,
                            prepare_storage_record(raw_message,
                              inherit_discovery_data(cc, parsed, linked_call_id),
                              linked_call_id)) :
                          linked_call_id \in
                            UNION {link_to_discovery_call(cc, raw_message, parsed,
                                                          recent) :
                                   recent \in SUBSET (1..Len(cc))}}
       IN  UNION {process_batch(c, messages, i + 1, dry_run) : c \in after}

\* main(), one turn of its loop: fetch the batch at OFFSET total_processed,
\* stop when it is empty; process it; mark its messages (not in a dry run; a
\* failure is logged); add its length to total_processed; stop when it was
\* short.
BackfillBatch ==
  /\ bf.pc = "loop"
  /\ LET messages == get_unparsed_messages(raw_messages, crypto_calls, BatchSize,
                                           bf.total_processed)
         stop == [NoBackfill EXCEPT !.runs = bf.runs + 1]
     IN  IF messages = <<>>
         THEN bf' = stop /\ UNCHANGED <<crypto_calls, raw_messages>>
         ELSE /\ crypto_calls' \in process_batch(crypto_calls, messages, 1, bf.dry_run)
              /\ \E fail \in BOOLEAN :
                   raw_messages' = IF bf.dry_run \/ fail THEN raw_messages
                                   ELSE mark_processed_messages(raw_messages, messages)
              /\ bf' = IF Len(messages) < BatchSize THEN stop
                       ELSE [bf EXCEPT !.total_processed = @ + Len(messages)]
  /\ UNCHANGED LiveVars

\* ----------------------------------------------------------- specifications
NextLive ==
  \/ \E chat \in Chats, id \in MsgIds, text \in Texts :
       \E reply_to \in ReplyTargets(id) : Deliver(chat, id, text, reply_to)
  \/ \E t \in Slots : Admit(t)
  \/ \E t \in Slots : RawPersist(t)
  \/ \E t \in Slots : ClassifyParse(t)
  \/ \E t \in Slots : Link(t)
  \/ \E t \in Slots : RateLimit(t)
  \/ \E t \in Slots : Wake(t)
  \/ \E t \in Slots : AppendRow(t)
  \/ \E t \in Slots : RetryOrReturn(t)
  \/ \E t \in Slots : Finish(t)

NextBackfill ==
  \/ \E dry_run \in BOOLEAN : BackfillStart(dry_run)
  \/ BackfillBatch

\* The live handler on SQLiteStorage (the primary store).
Next == NextLive

Spec == Init /\ [][Next]_vars

\* The live handler on SQLiteStorage and the backfill job on the same file.
SpecBackfill == Init /\ [][NextLive \/ NextBackfill]_vars

\* The live handler on MultiStorage, bare or inside EnhancedProductionStorage
\* (the wiring of monitor.py), with or without the Excel sink.
InitWrapped == InitWith({"multi", "enhanced"}, {{}, {"excel"}})

SpecWrapped == InitWrapped /\ [][NextLive]_vars

\* MultiStorage.append_row called directly, as the unit tests do, for every
\* configuration of the optional sinks.
InitFanout == InitWith({"multi"}, SUBSET {"excel", "sheets"})

Records ==
  {storage_data([chat_id |-> chat, id |-> id, text |-> text, reply_to |-> NullId],
                WithLink(parse_crypto_call(text), NullId)) :
     chat \in {"chA"}, id \in MsgIds, text \in {"disc"}}

\* MultiStorage.get_backend_status(): for each sink whether its storage
\* object exists ('is not None'), which __init__ decides.
get_backend_status(cfg) ==
  [sqlite |-> TRUE, excel |-> "excel" \in cfg, sheets |-> "sheets" \in cfg]

\* MultiStorage.close(): SQLite, Excel, Google Sheets in this order, each
\* configured sink's close() inside its own try/except Exception.  fails are
\* the sinks whose close() raises.  attempted are the sinks whose close() was
\* called, closed those whose close() returned, raised whether close() of the
\* coordinator raised.
SinkOrder == <<"sqlite", "excel", "sheets">>

RECURSIVE CloseFrom(_, _, _, _)
CloseFrom(k, cfg, fails, catch) ==
  IF k > Len(SinkOrder) THEN [attempted |-> {}, closed |-> {}, raised |-> FALSE]
  ELSE LET sink == SinkOrder[k]
       IN  IF sink \notin cfg THEN CloseFrom(k + 1, cfg, fails, catch)
           ELSE IF sink \in fails /\ ~catch
           THEN [attempted |-> {sink}, closed |-> {}, raised |-> TRUE]
           ELSE LET rest == CloseFrom(k + 1, cfg, fails, catch)
                IN  [attempted |-> {sink} \cup rest.attempted,
                     closed |-> (IF sink \in fails THEN {} ELSE {sink})
                                \cup rest.closed,
                     raised |-> rest.raised]

MultiStorage_close_as_uncaught(cfg, fails) ==
  CloseFrom(1, {"sqlite"} \cup cfg, fails, FALSE)

MultiStorage_close(cfg, fails) ==
  CloseFrom(1, {"sqlite"} \cup cfg, fails, TRUE)

\* storage.close() is called on the coordinator; probe records the call.
CoordinatorClose(fails) ==
  /\ ~probe.called
  /\ probe' = [called |-> TRUE, fails |-> fails,
               close |-> MultiStorage_close(sinks, fails)]
  /\ UNCHANGED <<StoreVars, HandlerVars, storageKind, sinks, bf, last_append, sup>>

CoordinatorAppend(data, fails) ==
  /\ ~probe.called
  /\ Len(crypto_calls) < MaxEvents
  /\ Len(excel_rows) < MaxEvents
  /\ Len(sheets_rows) < MaxEvents
  /\ LET r == MultiStorage_append_row(crypto_calls, excel_rows, sheets_rows, sinks,
                                      data, fails)
     IN  /\ crypto_calls' = r.crypto_calls
         /\ excel_rows' = r.excel_rows
         /\ sheets_rows' = r.sheets_rows
         /\ last_append' = [called |-> TRUE, accepted |-> r.accepted,
                            raised |-> r.raised]
  /\ UNCHANGED <<raw_messages, raw_seq, ever_stored, storageKind, sinks, bf,
                 probe, sup, HandlerVars>>

NextFanout ==
  \/ \E data \in Records, fails \in PossibleFailures("multi", sinks) :
       CoordinatorAppend(data, fails)
  \/ \E fails \in SUBSET ({"sqlite"} \cup sinks) : CoordinatorClose(fails)

SpecFanout == InitFanout /\ [][NextFanout]_vars

\* BackfillProcessor.link_to_discovery_call called directly on a table of
\* at most MaxRows rows, for every raw message, parsed record and 24 hour
\* window.
MaxRows == 2          \* rows of crypto_calls when the linker is called directly

LinkerRecords ==
  {[token_name |-> d.token_name, message_type |-> d.message_type,
    contract_address |-> d.contract_address, entry_cap |-> d.entry_cap,
    x_gain |-> NULL, vip_x |-> NULL, linked_crypto_call_id |-> NullId,
    message_id |-> id, channel_name |-> channel_name] :
     d \in {[message_type |-> "discovery", token_name |-> "T1",
             contract_address |-> "K1", entry_cap |-> "45.9K"],
            [message_type |-> "discovery", token_name |-> "T2",
             contract_address |-> "K2", entry_cap |-> "45K"],
            [message_type |-> "update", token_name |-> NULL,
             contract_address |-> NULL, entry_cap |-> "45.9K"]},
     id \in MsgIds, channel_name \in {"A", "B"}}

RECURSIVE LinkerTables(_)
LinkerTables(n) ==
  IF n = 0 THEN {<<>>}
  ELSE LinkerTables(n - 1) \cup
       {SQLite_append_row(cc, data) :
          cc \in {c \in LinkerTables(n - 1) : Len(c) = n - 1},
          data \in LinkerRecords}

InitLinker ==
  /\ storageKind = "sqlite"
  /\ sinks = {}
  /\ bf = NoBackfill
  /\ last_append = NoAppend
  /\ probe = NoProbe
  /\ sup = NoSupervisor
  /\ crypto_calls \in LinkerTables(MaxRows)
  /\ raw_messages = {}
  /\ raw_seq = 0
  /\ excel_rows = <<>>
  /\ sheets_rows = <<>>
  /\ tasks = [t \in TaskIds |-> NoTask]
  /\ n_events = 0
  /\ running = 0
  /\ pending_messages = <<>>
  /\ ever_stored = {}

LinkerRawMessages ==
  {[message_id |-> MaxMsgId, channel_id |-> "chA", channel_name |-> "A",
    message_text |-> "upd", reply_to_message_id |-> reply_to] :
     reply_to \in {NullId} \cup MsgIds}

LinkerParsed ==
  {[message_type |-> message_type, token_name |-> token_name,
    contract_address |-> contract_address, entry_cap |-> "45.9K",
    x_gain |-> "5.4", vip_x |-> NULL] :
     message_type \in {"update", "discovery"},
     token_name \in {NULL, "T1", "T2"},
     contract_address \in {NULL, "K1", "K2"}}

\* The records process_batch can prepare for a parsed raw row:
\* link_to_discovery_call, inherit_discovery_data, prepare_storage_record.
Job_records(cc, raw_message, parsed_data, recent) ==
  {prepare_storage_record(raw_message,
     inherit_discovery_data(cc, parsed_data, linked_call_id), linked_call_id) :
   linked_call_id \in link_to_discovery_call(cc, raw_message, parsed_data, recent)}

\* The record handle_message builds for the same message, parsed record and
\* table: its linking block, then storage_data.
Handler_record(cc, raw_message, parsed_data) ==
  LET msg == [id |-> raw_message.message_id, chat_id |-> raw_message.channel_id,
              text |-> raw_message.message_text,
              reply_to |-> raw_message.reply_to_message_id]
  IN  storage_data(msg, Handler_link(cc, msg, WithLink(parsed_data, NullId)))

ProbeLink(raw_message, parsed_data, recent) ==
  /\ ~probe.called
  /\ probe' = [called |-> TRUE, raw_message |-> raw_message,
               parsed_data |-> parsed_data, recent |-> recent,
               result |-> link_to_discovery_call(crypto_calls, raw_message,
                                                 parsed_data, recent),
               backfill |-> Job_records(crypto_calls, raw_message, parsed_data,
                                        recent),
               live |-> Handler_record(crypto_calls, raw_message, parsed_data)]
  /\ UNCHANGED <<StoreVars, HandlerVars, storageKind, sinks, bf, last_append, sup>>

NextLinker ==
  \E raw_message \in LinkerRawMessages, parsed_data \in LinkerParsed,
     recent \in SUBSET (1..Len(crypto_calls)) :
    ProbeLink(raw_message, parsed_data, recent)

SpecLinker == InitLinker /\ [][NextLinker]_vars

\* ------------------------------------------------------ connection supervisor
\* TelegramListener.  sup.is_connected is self.is_connected and
\* sup.client_connected is client.is_connected(), the transport's own state.
\* pc is the position inside auto_reconnect ("idle" outside of it); attempts,
\* failed, attempts_after_auth, auth_failed, last_connect, op, result and
\* calls record what the running or last operation did.

MaxCalls == 3

\* auto_reconnect(self, max_retries: int = 5)
auto_reconnect_max_retries == 5

RetryArgs == {0, 1, 2, auto_reconnect_max_retries}

\* What client.connect() and client.is_user_authorized() do in one call of
\* connect(): transport says whether the client is connected afterwards,
\* raised names the exception one of them raised, authorized is the answer
\* of is_user_authorized() when nothing was raised.
\* error.seconds of the FloodWaitError the client raises.
FloodWaitSeconds == 30

ConnectOutcomes ==
  {o \in [transport : BOOLEAN,
          raised : {"none", "AuthKeyError", "FloodWaitError", "Exception"},
          authorized : BOOLEAN] :
     /\ o.raised = "none" => o.transport
     /\ o.raised # "none" => ~o.authorized}

\* connect(): [s |-> the supervisor afterwards, ret |-> the value returned].
connect(s, o) ==
  IF s.client_connected
  THEN [s |-> [s EXCEPT !.last_connect = "already"], ret |-> TRUE]
  ELSE IF o.raised = "none"
  THEN [s |-> [s EXCEPT !.client_connected = TRUE, !.is_connected = TRUE,
                        !.last_connect = IF o.authorized THEN "authorized"
                                         ELSE "unauthorized"],
        ret |-> TRUE]
  ELSE [s |-> [s EXCEPT !.client_connected = o.transport, !.is_connected = FALSE,
                        !.last_connect = o.raised],
        ret |-> FALSE]

SupFrame == UNCHANGED <<StoreVars, HandlerVars, storageKind, sinks, bf,
                        last_append, probe>>

Called(s, op, result) ==
  [s EXCEPT !.op = op, !.result = result, !.calls = s.calls + 1]

\* A direct call of connect().
Connect(o) ==
  /\ sup.pc = "idle" /\ sup.calls < MaxCalls
  /\ sup' = Called(connect(sup, o).s, "connect", connect(sup, o).ret)
  /\ SupFrame

\* disconnect(): nothing when is_connected is False; otherwise
\* client.disconnect(), whose exception is logged, and is_connected = False
\* in the finally clause.  raises says whether client.disconnect() raises;
\* the transport is then left as it was.
disconnect_as_flag_in_try(s, raises) ==
  IF ~s.is_connected THEN s
  ELSE IF raises THEN [s EXCEPT !.client_disconnects = @ + 1]
  ELSE [s EXCEPT !.client_disconnects = @ + 1, !.client_connected = FALSE,
                 !.is_connected = FALSE]

disconnect(s, raises) ==
  IF ~s.is_connected THEN s
  ELSE [s EXCEPT !.client_disconnects = @ + 1,
                 !.client_connected = IF raises THEN @ ELSE FALSE,
                 !.is_connected = FALSE]

\* A direct call of disconnect().
Disconnect(raises) ==
  /\ sup.pc = "idle" /\ sup.calls < MaxCalls /\ sup.sd_pc = "none"
  /\ sup' = Called(disconnect(sup, raises), "disconnect", FALSE)
  /\ SupFrame

\* setup_message_handler(channel_configs, storage)
SetupMessageHandler ==
  /\ sup.pc = "idle" /\ sup.calls < MaxCalls
  /\ sup' = Called([sup EXCEPT !.message_handler = TRUE, !.registered = TRUE],
                   "setup_message_handler", TRUE)
  /\ SupFrame

\* start_listening()
StartListening ==
  /\ sup.pc = "idle" /\ sup.calls < MaxCalls
  /\ sup' = IF ~sup.is_connected \/ ~sup.message_handler
            THEN Called(sup, "start_listening", FALSE)
            ELSE Called([sup EXCEPT !.listening = TRUE], "start_listening", TRUE)
  /\ SupFrame

\* handle_connection_error(error): should_retry is False for AuthKeyError;
\* for FloodWaitError it sleeps error.seconds and answers True; for any other
\* error it answers True without sleeping.  Nothing in the listener calls it.
HandleConnectionError(error) ==
  /\ sup.pc = "idle" /\ sup.calls < MaxCalls
  /\ sup' = CASE error = "AuthKeyError" ->
                  Called(sup, "handle_connection_error", FALSE)
             [] error = "FloodWaitError" ->
                  Called([sup EXCEPT !.delay = FloodWaitSeconds],
                         "handle_connection_error", TRUE)
             [] OTHER -> Called(sup, "handle_connection_error", TRUE)
  /\ SupFrame

\* The transport drops: client.is_connected() turns False, the listener's own
\* flag is untouched.
TransportDrop ==
  /\ sup.client_connected
  /\ sup' = [sup EXCEPT !.client_connected = FALSE]
  /\ SupFrame

\* for i in range(max_retries): whether the loop has another iteration.
InRange_as_inclusive(i, n) == i <= n

InRange(i, n) == i < n

StartReconnect(s, caller, n) ==
  [s EXCEPT !.pc = "loop", !.caller = caller, !.max_retries = n, !.i = 0,
            !.delay = 0, !.attempts = 0, !.failed = 0, !.attempts_after_auth = 0,
            !.auth_failed = FALSE, !.calls = s.calls + 1]

\* A direct call of auto_reconnect(max_retries).
AutoReconnect(n) ==
  /\ sup.pc = "idle" /\ sup.calls < MaxCalls
  /\ sup' = StartReconnect(sup, "auto_reconnect", n)
  /\ SupFrame

\* handle_network_failure(): marks the listener disconnected, then
\* auto_reconnect() with the default max_retries.
HandleNetworkFailure ==
  /\ sup.pc = "idle" /\ sup.calls < MaxCalls
  /\ sup' = StartReconnect([sup EXCEPT !.is_connected = FALSE],
                           "handle_network_failure", auto_reconnect_max_retries)
  /\ SupFrame

\* delay = (2 ** i) + random.uniform(0, 1), without the jitter; i is the loop
\* index, 0 for the first attempt.
backoff_delay_as_one_based(i) == 2 ^ (i + 1)

backoff_delay(i) == 2 ^ i

\* await asyncio.sleep(delay).  The jitter is left out: delay is the
\* deterministic part.
ReconnectSleep ==
  /\ sup.pc = "loop" /\ InRange(sup.i, sup.max_retries)
  /\ sup' = [sup EXCEPT !.pc = "connect", !.delay = backoff_delay(sup.i)]
  /\ SupFrame

\* if await self.connect(): return True; otherwise the next iteration.
ReconnectAttempt(o) ==
  /\ sup.pc = "connect"
  /\ LET r == connect(sup, o)
         counted == [r.s EXCEPT
                       !.attempts = @ + 1,
                       !.attempts_after_auth = IF sup.auth_failed THEN @ + 1 ELSE @]
     IN  sup' = IF r.ret
                THEN [counted EXCEPT !.pc = "idle", !.op = "auto_reconnect",
                                     !.result = TRUE]
                ELSE [counted EXCEPT !.pc = "loop", !.i = @ + 1, !.failed = @ + 1,
                                     !.auth_failed =
                                        @ \/ r.s.last_connect = "AuthKeyError"]
  /\ SupFrame

\* The loop is exhausted: return False.
ReconnectExhausted ==
  /\ sup.pc = "loop" /\ ~InRange(sup.i, sup.max_retries)
  /\ sup' = [sup EXCEPT !.pc = "idle", !.op = "auto_reconnect", !.result = FALSE]
  /\ SupFrame

\* The methods and attributes a TelegramListener has that run_with_reliability
\* uses.  get_active_channels and storage belong to MessageHandler.
TelegramListenerAttributes ==
  {"connect", "setup_message_handler", "run_until_disconnected",
   "handle_network_failure", "is_connected", "client", "message_handler"}

\* run_with_reliability(): connect(); when that answers True the arguments
\* of setup_message_handler are evaluated, self.get_active_channels() first,
\* which raises AttributeError; the outer 'except Exception' logs it and
\* returns False.  The call of setup_message_handler and the loop around
\* run_until_disconnected are never reached; with the attribute in place
\* setup_message_handler, a plain function, would return a bool and the
\* 'await' of that bool raise TypeError, with the same return value.
run_with_reliability(s, o) ==
  LET r == connect(s, o)
  IN  IF ~r.ret THEN [s |-> r.s, ret |-> FALSE]
      ELSE IF "get_active_channels" \notin TelegramListenerAttributes
      THEN [s |-> r.s, ret |-> FALSE]
      ELSE [s |-> [r.s EXCEPT !.message_handler = TRUE, !.registered = TRUE],
            ret |-> FALSE]

\* A call of run_with_reliability().
RunWithReliability(o) ==
  /\ sup.pc = "idle" /\ sup.calls < MaxCalls /\ sup.sd_pc = "none"
  /\ sup' = Called(run_with_reliability(sup, o).s, "run_with_reliability",
                   run_with_reliability(sup, o).ret)
  /\ SupFrame

ReconnectStep ==
  \/ ReconnectSleep
  \/ \E o \in ConnectOutcomes : ReconnectAttempt(o)
  \/ ReconnectExhausted

NextSupervisor ==
  \/ \E o \in ConnectOutcomes : Connect(o)
  \/ \E raises \in BOOLEAN : Disconnect(raises)
  \/ SetupMessageHandler
  \/ StartListening
  \/ TransportDrop
  \/ \E error \in {"AuthKeyError", "FloodWaitError", "Exception"} :
       HandleConnectionError(error)
  \/ \E n \in RetryArgs : AutoReconnect(n)
  \/ HandleNetworkFailure
  \/ \E o \in ConnectOutcomes : RunWithReliability(o)
  \/ ReconnectSleep
  \/ \E o \in ConnectOutcomes : ReconnectAttempt(o)
  \/ ReconnectExhausted

\* Every await inside auto_reconnect returns (asyncio.sleep ends, connect()
\* catches what the client raises), so a started reconnect loop keeps
\* stepping.
SpecSupervisor == Init /\ [][NextSupervisor]_vars /\ WF_vars(ReconnectStep)

\* ------------------------------------------------------- graceful shutdown
\* shutdown_gracefully(timeout) of a listener whose handler is set up, next
\* to the event handler tasks.  The fields sd_* of sup are its position and
\* what it has done: sd_connected is client.is_connected() when it started,
\* sd_pending the messages pending at that moment, sd_k the index of the for
\* loop of process_pending, sd_current the message that loop is handling,
\* sd_handled the messages handle_message has returned for.

\* stop_listening(): with a connected client it evaluates
\* self.event_handler, an attribute nothing assigns (event_handler is a local
\* function of setup_message_handler): AttributeError, before
\* remove_event_handler is called.  With a disconnected client it does
\* nothing.
stop_listening(s) ==
  IF s.client_connected THEN [s |-> s, raised |-> TRUE]
  ELSE [s |-> s, raised |-> FALSE]

\* The listener after a successful connect() and setup_message_handler().
ListeningSupervisor ==
  Called([Called(connect(NoSupervisor,
                         [transport |-> TRUE, raised |-> "none",
                          authorized |-> TRUE]).s, "connect", TRUE)
            EXCEPT !.message_handler = TRUE, !.registered = TRUE],
         "setup_message_handler", TRUE)

InitShutdown ==
  /\ storageKind = "sqlite"
  /\ sinks = {}
  /\ bf = NoBackfill
  /\ last_append = NoAppend
  /\ probe = NoProbe
  /\ sup = ListeningSupervisor
  /\ crypto_calls = <<>>
  /\ raw_messages = {}
  /\ raw_seq = 0
  /\ excel_rows = <<>>
  /\ sheets_rows = <<>>
  /\ tasks = [t \in TaskIds |-> NoTask]
  /\ n_events = 0
  /\ running = 0
  /\ pending_messages = <<>>
  /\ ever_stored = {}

\* The client dispatches a new message to the registered event handler.
\* shutdown_gracefully reaches client.disconnect() without an await once
\* stop_listening has raised, and the drain only runs with a disconnected
\* client: no event is dispatched after it has started.
Event(chat, id, text, reply_to) ==
  /\ sup.client_connected /\ sup.registered /\ sup.sd_pc = "none"
  /\ Deliver(chat, id, text, reply_to)

SeqRange(seq) == {seq[k] : k \in 1..Len(seq)}

\* shutdown_gracefully up to its first await: stop_listening(), then either
\* the drain is set up or, when stop_listening raised or nothing is pending,
\* the disconnect is next.
ShutdownStart ==
  /\ sup.sd_pc = "none" /\ sup.pc = "idle" /\ running = 0
  /\ LET r == stop_listening(sup)
         drain == ~r.raised /\ r.s.message_handler /\ Len(pending_messages) > 0
     IN  sup' = [r.s EXCEPT !.sd_pc = IF drain THEN "drain" ELSE "disconnect",
                            !.sd_connected = sup.client_connected,
                            !.sd_stop_raised = r.raised,
                            !.sd_pending = SeqRange(pending_messages),
                            !.sd_k = 0]
  /\ UNCHANGED <<StoreVars, HandlerVars, storageKind, sinks, bf, last_append, probe>>

\* process_pending: for message in pending_messages: the list iterator
\* takes the element at its index if the list still has one and calls
\* handle_message for it; otherwise pending_messages.clear() and the drain is
\* over.  The loop does not yield between two messages.
DrainNext ==
  /\ sup.sd_pc = "drain"
  /\ \/ tasks[DrainSlot].pc = "unborn" /\ running = 0
     \/ tasks[DrainSlot].pc = "next" /\ running = DrainSlot
  /\ IF sup.sd_k < Len(pending_messages)
     THEN LET message == pending_messages[sup.sd_k + 1]
          IN  /\ tasks' = [tasks EXCEPT ![DrainSlot] =
                             [NoTask EXCEPT !.msg = tasks[message].msg,
                                            !.pc = "admit"]]
              /\ running' = DrainSlot
              /\ sup' = [sup EXCEPT !.sd_k = @ + 1, !.sd_current = message]
              /\ UNCHANGED pending_messages
     ELSE /\ pending_messages' = <<>>
          /\ tasks' = [tasks EXCEPT ![DrainSlot] = [NoTask EXCEPT !.pc = "done"]]
          /\ running' = 0
          /\ sup' = [sup EXCEPT !.sd_pc = "disconnect", !.sd_current = 0]
  /\ UNCHANGED <<StoreVars, storageKind, sinks, bf, last_append, probe, n_events>>

\* handle_message has returned to process_pending.
DrainReturn ==
  /\ running = DrainSlot /\ tasks[DrainSlot].pc = "ret"
  /\ tasks' = [tasks EXCEPT ![DrainSlot] = [NoTask EXCEPT !.pc = "next"]]
  /\ sup' = [sup EXCEPT !.sd_handled = @ \cup {sup.sd_current}]
  /\ UNCHANGED <<StoreVars, storageKind, sinks, bf, last_append, probe, n_events,
                 running, pending_messages>>

\* The rate-limit sleep of the drain's handle_message ends.  Its timer was
\* set after those of the sleeping event handler tasks, so a task sleeping
\* for the same delay wakes first.
DrainWake ==
  /\ running = 0 /\ tasks[DrainSlot].pc = "sleep"
  /\ \A u \in Slots :
       tasks[u].pc = "sleep"
         => channel_configs[tasks[u].msg.chat_id].rate_limit
              # channel_configs[tasks[DrainSlot].msg.chat_id].rate_limit
  /\ tasks' = [tasks EXCEPT ![DrainSlot] = [@ EXCEPT !.pc = "append"]]
  /\ running' = DrainSlot
  /\ UNCHANGED <<StoreVars, ConfigVars, n_events, pending_messages>>

\* asyncio.wait_for gives up while the drain sleeps: process_pending is
\* cancelled, pending_messages is not cleared.
DrainTimeout ==
  /\ sup.sd_pc = "drain" /\ running = 0 /\ tasks[DrainSlot].pc = "sleep"
  /\ tasks' = [tasks EXCEPT ![DrainSlot] = [NoTask EXCEPT !.pc = "done"]]
  /\ sup' = [sup EXCEPT !.sd_pc = "disconnect", !.sd_timeout = TRUE,
                        !.sd_current = 0]
  /\ UNCHANGED <<StoreVars, storageKind, sinks, bf, last_append, probe, n_events,
                 running, pending_messages>>

\* await self.disconnect(), at the end of the try block or in the except
\* block; shutdown_gracefully returns.
ShutdownDisconnect(raises) ==
  /\ sup.sd_pc = "disconnect" /\ running = 0
  /\ sup' = [disconnect(sup, raises) EXCEPT !.sd_pc = "done",
                                            !.op = "shutdown_gracefully"]
  /\ SupFrame

\* The events of the shutdown scenario: a rate-limited and an unlimited
\* active channel, a text that is no call and a discovery.
ShutdownChats == {"chA", "chB"}
ShutdownTexts == {"junk", "disc"}

NextShutdown ==
  \/ \E chat \in ShutdownChats, id \in MsgIds, text \in ShutdownTexts :
       \E reply_to \in ReplyTargets(id) : Event(chat, id, text, reply_to)
  \/ \E t \in TaskIds : Admit(t)
  \/ \E t \in TaskIds : RawPersist(t)
  \/ \E t \in TaskIds : ClassifyParse(t)
  \/ \E t \in TaskIds : Link(t)
  \/ \E t \in TaskIds : RateLimit(t)
  \/ \E t \in Slots : Wake(t)
  \/ \E t \in TaskIds : AppendRow(t)
  \/ \E t \in Slots : RetryOrReturn(t)
  \/ \E t \in Slots : Finish(t)
  \/ TransportDrop
  \/ \E raises \in BOOLEAN : running = 0 /\ Disconnect(raises)
  \/ ShutdownStart
  \/ DrainNext
  \/ DrainReturn
  \/ DrainWake
  \/ DrainTimeout
  \/ \E raises \in BOOLEAN : ShutdownDisconnect(raises)

\* The event handler tasks and one shutdown_gracefully of a listening
\* TelegramListener on SQLiteStorage.
SpecShutdown == InitShutdown /\ [][NextShutdown]_vars

\* ------------------------------------------------- backfill job, by statement
\* The backfill job is a process of its own on the database file of the live
\* handler, so the handler's statements can fall between any two of its
\* statements.  Here one run is taken statement by statement: the SELECT of
\* get_unparsed_messages, each message of process_batch, the UPDATE of
\* mark_processed_messages.  bf.messages is the fetched batch and bf.i the
\* position in it; bf.todo are the raw rows without a call when the run
\* started, bf.seen those handed to process_batch, bf.duplicate whether an
\* insert was made for a message that had a call already.

MaxJobRuns == 2

\* The raw rows no crypto_calls row matches on message_id.
Unparsed(raw, cc) ==
  {r \in raw : \A i \in 1..Len(cc) : cc[i].message_id # r.message_id}

\* Whether the table holds a call of the raw row's message: same message_id,
\* and the channel under the name the handler or the job writes.
HasCall(cc, raw_message) ==
  \E i \in 1..Len(cc) :
    /\ cc[i].message_id = raw_message.message_id
    /\ cc[i].channel_name \in
         {raw_message.channel_name,
          channel_configs[raw_message.channel_id].channel_name}

\* if not self.dry_run: self.storage.append_row(storage_record)
store_record_as_always_writing(cc, storage_record, dry_run) ==
  SQLite_append_row(cc, storage_record)

store_record(cc, storage_record, dry_run) ==
  IF dry_run THEN cc ELSE SQLite_append_row(cc, storage_record)

\* One turn of the for loop of process_batch: the tables it can leave.  The
\* table is unchanged when the text does not parse or when a statement
\* raises (the exception is counted and the loop goes on).
process_message(cc, raw_message, dry_run) ==
  LET parsed == parse_crypto_call(raw_message.message_text)
  IN  IF parsed = NoParse THEN {cc}
      ELSE {cc} \cup
           {store_record(cc,
              prepare_storage_record(raw_message,
                inherit_discovery_data(cc, parsed, linked_call_id),
                linked_call_id),
              dry_run) :
            linked_call_id \in
              UNION {link_to_discovery_call(cc, raw_message, parsed, recent) :
                     recent \in SUBSET (1..Len(cc))}}

\* main(): a run of the job starts.
JobStart(dry_run) ==
  /\ bf.pc = "idle" /\ bf.runs < MaxJobRuns
  /\ bf' = [NoBackfill EXCEPT
              !.pc = "fetch", !.dry_run = dry_run, !.runs = bf.runs,
              !.todo = {RawKey(r) : r \in Unparsed(raw_messages, crypto_calls)}]
  /\ UNCHANGED <<LiveVars, crypto_calls, raw_messages>>

\* messages = get_unparsed_messages(batch_size, offset=total_processed);
\* the run ends when the batch is empty.
JobFetch ==
  /\ bf.pc = "fetch"
  /\ LET messages == get_unparsed_messages(raw_messages, crypto_calls, BatchSize,
                                           bf.total_processed)
     IN  bf' = IF messages = <<>>
               THEN [bf EXCEPT !.pc = "idle", !.runs = @ + 1, !.messages = <<>>,
                               !.i = 0]
               ELSE [bf EXCEPT !.pc = "process", !.messages = messages, !.i = 1]
  /\ UNCHANGED <<LiveVars, crypto_calls, raw_messages>>

\* process_batch, the turn of its loop for messages[i].
JobProcess ==
  /\ bf.pc = "process"
  /\ LET raw_message == bf.messages[bf.i]
     IN  /\ crypto_calls' \in process_message(crypto_calls, raw_message, bf.dry_run)
         /\ bf' = [bf EXCEPT
                     !.i = @ + 1,
                     !.pc = IF bf.i = Len(bf.messages) THEN "mark" ELSE "process",
                     !.seen = @ \cup {RawKey(raw_message)},
                     !.duplicate = @ \/ (/\ crypto_calls' # crypto_calls
                                         /\ HasCall(crypto_calls, raw_message))]
  /\ UNCHANGED <<LiveVars, raw_messages>>

\* mark_processed_messages(messages), nothing in a dry run and nothing when
\* the UPDATE raises; total_processed += len(messages); the run ends after a
\* short batch.
JobMark ==
  /\ bf.pc = "mark"
  /\ \E fail \in BOOLEAN :
       raw_messages' = IF bf.dry_run \/ fail THEN raw_messages
                       ELSE mark_processed_messages(raw_messages, bf.messages)
  /\ bf' = IF Len(bf.messages) < BatchSize
           THEN [bf EXCEPT !.pc = "idle", !.runs = @ + 1, !.i = 0]
           ELSE [bf EXCEPT !.pc = "fetch", !.i = 0,
                           !.total_processed = @ + Len(bf.messages)]
  /\ UNCHANGED <<LiveVars, crypto_calls>>

\* The messages of the scenario: two active channels that number their
\* messages alike, a discovery and a bonding text the classifier rejects.
JobChats == {"chA", "chB"}
JobTexts == {"disc", "bondOnly"}

NextJob ==
  \/ \E chat \in JobChats, id \in MsgIds, text \in JobTexts :
       Deliver(chat, id, text, NullId)
  \/ \E t \in Slots : Admit(t)
  \/ \E t \in Slots : RawPersist(t)
  \/ \E t \in Slots : ClassifyParse(t)
  \/ \E t \in Slots : Link(t)
  \/ \E t \in Slots : RateLimit(t)
  \/ \E t \in Slots : Wake(t)
  \/ \E t \in Slots : AppendRow(t)
  \/ \E t \in Slots : RetryOrReturn(t)
  \/ \E t \in Slots : Finish(t)
  \/ \E dry_run \in BOOLEAN : JobStart(dry_run)
  \/ JobFetch
  \/ JobProcess
  \/ JobMark

\* The live handler on SQLiteStorage and runs of the backfill job on the same
\* file, statement by statement.
SpecJob == Init /\ [][NextJob]_vars

\* =============================================================== properties

\* C1 (SpecFanout): MultiStorage.append_row returns normally if and only if
\* at least one configured sink accepted the write; when every configured
\* sink raises it raises, and a sink that is not configured never accepts.
C1_AppendSucceedsIffSomeSinkAccepted ==
  last_append.called =>
    /\ last_append.raised <=> (last_append.accepted = {})
    /\ last_append.accepted \subseteq ({"sqlite"} \cup sinks)

\* The primary sink failed, a secondary sink accepted the row, and the call
\* returned normally.
C1_Witness ==
  /\ last_append.called
  /\ ~last_append.raised
  /\ "sqlite" \notin last_append.accepted
  /\ last_append.accepted # {}

\* C2 (Spec): a task of handle_message that has reached a linker lookup or
\* append_row has completed its raw persist first, so that the raw row of
\* its message is in the store.
C2_RawPersistCompletedFirst ==
  \A t \in Slots :
    (\E k \in 1..Len(tasks[t].ops) :
        tasks[t].ops[k] \in {"lookup", "lookup_raise", "append_ok", "append_raise"})
      => /\ tasks[t].ops[1] = "raw_ok"
         /\ \E r \in raw_messages :
              RawKey(r) = <<tasks[t].msg.chat_id, tasks[t].msg.id>>

\* C3 (SpecBackfill): every CryptoCall with a non-null linked_crypto_call_id
\* references an existing CryptoCall whose message_type is discovery.
C3_LinkTargetIsDiscovery ==
  \A i \in 1..Len(crypto_calls) :
    crypto_calls[i].linked_crypto_call_id # NullId =>
      /\ crypto_calls[i].linked_crypto_call_id \in 1..Len(crypto_calls)
      /\ crypto_calls[crypto_calls[i].linked_crypto_call_id].message_type
           = "discovery"

\* C4 (SpecBackfill): every CryptoCall of message_type discovery has
\* linked_crypto_call_id = null.
C4_DiscoveryIsNeverLinked ==
  \A i \in 1..Len(crypto_calls) :
    crypto_calls[i].message_type = "discovery" =>
      crypto_calls[i].linked_crypto_call_id = NullId

\* C5 (Spec): every CryptoCall of the primary store has a RawMessage of the
\* same message (same message id, same channel).
C5_EveryCallHasItsRawRow ==
  \A i \in 1..Len(crypto_calls) :
    \E r \in raw_messages :
      /\ r.message_id = crypto_calls[i].message_id
      /\ channel_configs[r.channel_id].channel_name = crypto_calls[i].channel_name

\* C6 (Spec): when the live handler has linked a record, a token_name that
\* the parser returned non-null is the token_name of the record.
C6_InheritanceOnlyFillsNulls ==
  \A t \in Slots :
    tasks[t].parsed_data.linked_crypto_call_id # NullId =>
      LET parsed == parse_crypto_call(tasks[t].msg.text)
      IN  parsed.token_name # NULL =>
            tasks[t].parsed_data.token_name = parsed.token_name

\* C7 (Spec): when handle_message_with_retry has returned for a message whose
\* first append_row raised, append_row was called a second time.
C7_RetryAfterFailedAppend ==
  \A t \in Slots :
    (/\ tasks[t].pc = "remove"
     /\ \E k \in 1..Len(tasks[t].ops) : tasks[t].ops[k] = "append_raise")
      => Cardinality({k \in 1..Len(tasks[t].ops) :
                        tasks[t].ops[k] \in {"append_ok", "append_raise"}}) >= 2

\* C8 (Spec): an update that replies to a discovery of its channel whose
\* CryptoCall is stored before the update's is stored with
\* linked_crypto_call_id equal to the id of that discovery's CryptoCall.
C8_ReplyStoredAfterDiscoveryIsLinked ==
  \A t \in Slots :
    (/\ tasks[t].pc = "ret" /\ tasks[t].outcome = "True"
     /\ tasks[t].parsed_data.message_type = "update"
     /\ tasks[t].msg.reply_to # NullId
     /\ \E i \in 1..(Len(crypto_calls) - 1) :
          /\ crypto_calls[i].message_type = "discovery"
          /\ crypto_calls[i].message_id = tasks[t].msg.reply_to
          /\ crypto_calls[i].channel_name
               = channel_configs[tasks[t].msg.chat_id].channel_name)
      => \E i \in 1..(Len(crypto_calls) - 1) :
           /\ crypto_calls[i].message_type = "discovery"
           /\ crypto_calls[i].message_id = tasks[t].msg.reply_to
           /\ crypto_calls[i].channel_name
                = channel_configs[tasks[t].msg.chat_id].channel_name
           /\ tasks[t].parsed_data.linked_crypto_call_id = i

\* C9 (SpecBackfill): the raw store holds exactly one row for every
\* (channel_id, message_id) that store_raw_message has ever committed, and no
\* two rows of the store share a key.
C9_OneRawRowPerKey ==
  /\ \A key \in ever_stored :
       Cardinality({r \in raw_messages : RawKey(r) = key}) = 1
  /\ \A r, q \in raw_messages : RawKey(r) = RawKey(q) => r = q

\* The same message was stored twice and then marked by the backfill job.
C9_Witness ==
  /\ raw_seq = 2
  /\ Cardinality(raw_messages) = 1
  /\ \E r \in raw_messages : r.is_classified

\* C10 (Spec): handle_message on a message of an unknown or inactive channel
\* returns False without store_raw_message, the parser, a linker lookup or
\* append_row, and none of its steps changes the store.
C10_InactiveChannelIsDropped ==
  /\ [](\A t \in Slots :
          (/\ tasks[t].pc \in {"ret", "remove"}
           /\ \/ tasks[t].msg.chat_id \notin DOMAIN channel_configs
              \/ ~channel_configs[tasks[t].msg.chat_id].is_active)
            => tasks[t].outcome = "False" /\ tasks[t].ops = <<>>)
  /\ [][\A t \in Slots :
          (/\ running = t /\ tasks[t].pc \in {"admit", "ret", "remove"}
           /\ \/ tasks[t].msg.chat_id \notin DOMAIN channel_configs
              \/ ~channel_configs[tasks[t].msg.chat_id].is_active)
            => UNCHANGED <<crypto_calls, raw_messages, raw_seq, excel_rows,
                           sheets_rows>>]_vars

\* handle_message has returned for a message of the configured but inactive
\* channel while the store already holds rows of earlier messages.
C10_Witness ==
  \E t \in Slots :
    /\ tasks[t].pc = "ret"
    /\ tasks[t].msg.chat_id = "chI"
    /\ tasks[t].outcome = "False"
    /\ raw_messages # {}

\* C11 (Spec): when the classifier rejects the text, the parser returns no
\* match or the parser raises, handle_message returns False, append_row is
\* not called, no step of the task from classification on changes a table,
\* and the raw row the task stored for its message is still there.
C11_UnparsedIsNotWritten ==
  /\ [](\A t \in Slots :
          (/\ tasks[t].pc \in {"ret", "remove"}
           /\ is_channel_active(tasks[t].msg.chat_id)
           /\ \/ ~is_crypto_call_message(tasks[t].msg.text)
              \/ parse_crypto_call(tasks[t].msg.text) = NoParse
              \/ \E k \in 1..Len(tasks[t].ops) : tasks[t].ops[k] = "parse_raise")
            => /\ tasks[t].outcome = "False"
               /\ \A k \in 1..Len(tasks[t].ops) :
                    tasks[t].ops[k] \notin {"append_ok", "append_raise", "lookup",
                                            "lookup_raise"}
               /\ tasks[t].ops[1] = "raw_ok" =>
                    \E r \in raw_messages :
                      /\ RawKey(r) = <<tasks[t].msg.chat_id, tasks[t].msg.id>>
                      /\ r.message_text = tasks[t].msg.text)
  /\ [][\A t \in Slots :
          (/\ running = t
           /\ tasks[t].pc \in {"classify", "ret", "remove"}
           /\ \/ ~is_crypto_call_message(tasks[t].msg.text)
              \/ parse_crypto_call(tasks[t].msg.text) = NoParse
              \/ \E k \in 1..Len(tasks'[t].ops) : tasks'[t].ops[k] = "parse_raise")
            => UNCHANGED <<crypto_calls, raw_messages, raw_seq, excel_rows,
                           sheets_rows>>]_vars

\* handle_message has returned for an update line without the VIP group: the
\* classifier accepted it, the parser returned no match, the raw row is stored.
C11_Witness ==
  \E t \in Slots :
    /\ tasks[t].pc = "ret"
    /\ tasks[t].msg.text = "updNoVip"
    /\ tasks[t].ops = <<"raw_ok", "parse">>
    /\ tasks[t].outcome = "False"
    /\ \E r \in raw_messages : RawKey(r) = <<tasks[t].msg.chat_id, tasks[t].msg.id>>

\* C12 (SpecWrapped): a message that parsed and replies to a message without
\* a CryptoCall is handed to append_row, with linked_crypto_call_id = null,
\* also when the handler's storage is MultiStorage or the monitor's wrapper.
C12_UnresolvedReplyIsStillWritten ==
  \A t \in Slots :
    (/\ tasks[t].pc \in {"ret", "remove"}
     /\ \E k \in 1..Len(tasks[t].ops) : tasks[t].ops[k] = "parse"
     /\ parse_crypto_call(tasks[t].msg.text) # NoParse
     /\ tasks[t].msg.reply_to # NullId
     /\ get_crypto_call_by_message_id(crypto_calls, tasks[t].msg.reply_to) = NullId)
      => /\ \E k \in 1..Len(tasks[t].ops) :
              tasks[t].ops[k] \in {"append_ok", "append_raise"}
         /\ tasks[t].parsed_data.linked_crypto_call_id = NullId

\* C13 (SpecLinker): for a record that is not a discovery the linker returns
\* the row of the reply reference when that resolves; otherwise a row of the
\* contract address lookup when that has one; otherwise a row of the token
\* name lookup when that has one; otherwise nothing.
C13_FirstHitWins ==
  (probe.called /\ probe.parsed_data.message_type # "discovery") =>
    LET reply == IF probe.raw_message.reply_to_message_id # NullId
                 THEN get_crypto_call_by_message_id(crypto_calls,
                        probe.raw_message.reply_to_message_id)
                 ELSE NullId
        contract == IF Truthy(probe.parsed_data.contract_address)
                    THEN HeuristicHits(crypto_calls, probe.raw_message.channel_name,
                           "contract_address", probe.parsed_data.contract_address,
                           probe.recent)
                    ELSE {}
        name == IF Truthy(probe.parsed_data.token_name)
                THEN HeuristicHits(crypto_calls, probe.raw_message.channel_name,
                       "token_name", probe.parsed_data.token_name, probe.recent)
                ELSE {}
    IN  /\ reply # NullId => probe.result = {reply}
        /\ (reply = NullId /\ contract # {}) => probe.result = contract
        /\ (reply = NullId /\ contract = {} /\ name # {}) => probe.result = name
        /\ (reply = NullId /\ contract = {} /\ name = {}) => probe.result = {NullId}

\* No reply resolves, one recent discovery of the channel matches by contract
\* and a different one matches by name: the contract match is returned.
C13_Witness ==
  /\ probe.called
  /\ probe.parsed_data.message_type = "update"
  /\ probe.raw_message.reply_to_message_id = NullId
  /\ \E i, j \in probe.recent :
       /\ i # j
       /\ crypto_calls[i].message_type = "discovery"
       /\ crypto_calls[j].message_type = "discovery"
       /\ crypto_calls[i].channel_name = "A" /\ crypto_calls[j].channel_name = "A"
       /\ crypto_calls[i].contract_address = probe.parsed_data.contract_address
       /\ crypto_calls[j].contract_address # probe.parsed_data.contract_address
       /\ crypto_calls[j].token_name = probe.parsed_data.token_name
       /\ crypto_calls[i].token_name # probe.parsed_data.token_name
       /\ probe.result = {i}

\* C14 (Spec): a CryptoCall linked through the reply reference of its message
\* is linked to a CryptoCall of the same channel.  In the live path the reply
\* reference is the only source of a link.
C14_ReplyLinkStaysInChannel ==
  \A i \in 1..Len(crypto_calls) :
    (/\ crypto_calls[i].linked_crypto_call_id # NullId
     /\ crypto_calls[i].linked_crypto_call_id \in 1..Len(crypto_calls))
      => crypto_calls[crypto_calls[i].linked_crypto_call_id].channel_name
           = crypto_calls[i].channel_name

C16_UpdateWithoutVipParses ==
  \A t \in Slots :
    (/\ tasks[t].msg.text = "updNoVip"
     /\ \E k \in 1..Len(tasks[t].ops) : tasks[t].ops[k] = "parse")
      => /\ parse_crypto_call(tasks[t].msg.text).message_type = "update"
         /\ parse_crypto_call(tasks[t].msg.text).x_gain = Matches(tasks[t].msg.text).x
         /\ parse_crypto_call(tasks[t].msg.text).vip_x = NULL
         /\ parse_crypto_call(tasks[t].msg.text).entry_cap
              = Matches(tasks[t].msg.text).entry

\* C17 (Spec): for every message handed to the handler, if the parser returns
\* a record for its text then the classifier accepts the text.
C17_ClassifierAcceptsWhatParses ==
  \A t \in Slots :
    (tasks[t].pc # "unborn" /\ parse_crypto_call(tasks[t].msg.text) # NoParse)
      => is_crypto_call_message(tasks[t].msg.text)

\* C18 (SpecSupervisor): when connect() finds the session not authorized
\* after the transport connected, it returns False and leaves is_connected
\* False, and a start_listening() that follows returns False.
C18_UnauthorizedLeavesDisconnected ==
  /\ (sup.pc = "idle" /\ sup.op = "connect" /\ sup.last_connect = "unauthorized")
       => (~sup.is_connected /\ ~sup.result)
  /\ (sup.pc = "idle" /\ sup.op = "start_listening"
        /\ sup.last_connect = "unauthorized")
       => ~sup.result

\* C19 (SpecSupervisor): inside one auto_reconnect, after a connect attempt
\* has failed with AuthKeyError no further connect attempt is made.
C19_NoAttemptAfterAuthKeyError ==
  sup.attempts_after_auth = 0

\* C20 (SpecSupervisor): auto_reconnect(max_retries) calls connect() at most
\* max_retries times, 5 times when it is started by handle_network_failure;
\* the attempt that succeeds is its last and it returns True at once; it
\* returns False only after max_retries failed attempts; and every started
\* auto_reconnect returns.
C20_ReconnectIsBounded ==
  /\ [](/\ sup.attempts <= sup.max_retries
        /\ sup.caller = "handle_network_failure" => sup.attempts <= 5
        /\ (sup.pc = "idle" /\ sup.op = "auto_reconnect" /\ sup.result)
             => /\ sup.attempts = sup.failed + 1
                /\ sup.last_connect \in {"authorized", "unauthorized", "already"}
        /\ (sup.pc = "idle" /\ sup.op = "auto_reconnect" /\ ~sup.result)
             => /\ sup.attempts = sup.max_retries
                /\ sup.failed = sup.max_retries)
  /\ [][(sup.pc = "connect" /\ sup'.attempts = sup.attempts + 1
           /\ sup'.failed = sup.failed)
          => (sup'.pc = "idle" /\ sup'.op = "auto_reconnect" /\ sup'.result)]_vars
  /\ (sup.pc # "idle") ~> (sup.pc = "idle")

\* auto_reconnect(5) has returned True after two failed attempts and a third
\* that succeeded.
C20_Witness ==
  /\ sup.pc = "idle" /\ sup.op = "auto_reconnect" /\ sup.result
  /\ sup.max_retries = 5 /\ sup.attempts = 3 /\ sup.failed = 2

C22_FloodWaitIsHonoured ==
  (sup.pc = "connect" /\ sup.attempts > 0 /\ sup.last_connect = "FloodWaitError")
    => sup.delay = FloodWaitSeconds

\* C23 (SpecShutdown): once shutdown_gracefully has started on a listener
\* whose client is connected, the event handler is no longer registered, and
\* when it has returned the messages that were pending at its start have
\* been handled by the drain.
C23_DeregisterThenDrain ==
  (sup.sd_pc # "none" /\ sup.sd_connected)
    => /\ ~sup.registered
       /\ sup.sd_pc = "done" => sup.sd_pending \subseteq sup.sd_handled

\* C24 (SpecShutdown): when shutdown_gracefully is about to disconnect, or
\* has returned, and the drain did not time out, handle_message has been
\* called by the drain for every message that was pending at the start, and
\* pending_messages is empty when the disconnect begins; with the client
\* connected at the start or not.
C24_PendingDrainedBeforeDisconnect ==
  (sup.sd_pc \in {"disconnect", "done"} /\ ~sup.sd_timeout)
    => /\ sup.sd_pending \subseteq sup.sd_handled
       /\ sup.sd_pc = "disconnect" => pending_messages = <<>>

\* C25 (SpecShutdown): after disconnect() or shutdown_gracefully() has
\* returned is_connected is False, whatever raised or timed out on the way;
\* and a disconnect() that finds is_connected False does not call
\* client.disconnect().
C25_DisconnectedAfterReturn ==
  /\ [](sup.op \in {"disconnect", "shutdown_gracefully"} => ~sup.is_connected)
  /\ [][(/\ ~sup.is_connected
          /\ sup'.op \in {"disconnect", "shutdown_gracefully"}
          /\ \/ sup'.calls # sup.calls
             \/ sup.sd_pc = "disconnect" /\ sup'.sd_pc = "done")
         => sup'.client_disconnects = sup.client_disconnects]_vars

\* shutdown_gracefully has returned after the drain timed out and
\* client.disconnect() raised: the transport is still up, is_connected is
\* False.
C25_Witness ==
  /\ sup.sd_pc = "done" /\ sup.op = "shutdown_gracefully"
  /\ sup.sd_timeout
  /\ sup.client_disconnects = 1
  /\ ~sup.is_connected

\* C26 (SpecShutdown): no event handler task ends with an exception, for any
\* failures of the parser, the lookup or the sinks and any interleaving with
\* shutdown_gracefully, and no task runs the pipeline more than 3 times.
C26_EventHandlerNeverRaises ==
  \A t \in Slots :
    /\ tasks[t].outcome # "ValueError"
    /\ tasks[t].attempt < 3

\* C27 (SpecJob): when a run of the job that is not a dry run has ended,
\* every raw row that had no call when the run started has been handed to
\* process_batch, unless the live handler has written its call meanwhile.
C27_RunProcessesEveryUnparsedRow ==
  (bf.pc = "idle" /\ bf.runs > 0 /\ ~bf.dry_run)
    => \A r \in raw_messages :
         RawKey(r) \in bf.todo
           => (RawKey(r) \in bf.seen \/ HasCall(crypto_calls, r))

\* C28 (SpecJob): no statement of a dry run changes a table: a step of the
\* job taken while the run is a dry run leaves crypto_calls and raw_messages
\* as they were.
C28_DryRunWritesNothing ==
  [][(bf.dry_run /\ bf.pc # "idle" /\ bf' # bf)
       => (crypto_calls' = crypto_calls /\ raw_messages' = raw_messages)]_vars

\* A dry run has taken a batch whose first message parses through
\* process_batch and stands before mark_processed_messages.
C28_Witness ==
  /\ bf.dry_run /\ bf.pc = "mark"
  /\ parse_crypto_call(bf.messages[1].message_text) # NoParse

\* C29 (SpecJob): the UPDATE of mark_processed_messages in a run that is not
\* a dry run leaves every raw row that is not a row of the batch as it was,
\* a row of another channel with the message_id of a batch row included.
C29_MarkTouchesOnlyTheBatch ==
  [][(bf.pc = "mark" /\ ~bf.dry_run /\ bf' # bf)
       => \A r \in raw_messages :
            RawKey(r) \notin {RawKey(bf.messages[k]) : k \in 1..Len(bf.messages)}
              => r \in raw_messages']_vars

\* C30 (SpecJob): whenever process_batch inserts a call for a raw row, the
\* table holds no call of that row's message at that moment, whatever the
\* live handler has done since the batch was fetched.
C30_BackfillNeverDoubleInserts ==
  [][(bf.pc = "process" /\ crypto_calls' # crypto_calls /\ bf' # bf)
       => ~HasCall(crypto_calls, bf.messages[bf.i])]_vars

\* C31 (SpecLinker): for one raw message, parsed record and table, the record
\* the job prepares and the record the live handler builds carry the same
\* linked_crypto_call_id, token_name and contract_address.
C31_JobLinksAsTheHandlerDoes ==
  probe.called =>
    \A b \in probe.backfill :
      /\ b.linked_crypto_call_id = probe.live.linked_crypto_call_id
      /\ b.token_name = probe.live.token_name
      /\ b.contract_address = probe.live.contract_address

C33_StatusReportsTheFailedSink ==
  \A failed \in {"excel", "sheets"} :
    (/\ last_append.called /\ ~probe.called
     /\ sinks = {"excel", "sheets"}
     /\ last_append.accepted = {"sqlite", "excel", "sheets"} \ {failed})
      => LET status == get_backend_status(sinks)
         IN  /\ status.sqlite
             /\ status.excel = (failed # "excel")
             /\ status.sheets = (failed # "sheets")

\* C34 (SpecFanout): an append_row of the coordinator that raises leaves the
\* rows of every sink as they were, so the record is in no sink and running
\* the append again cannot leave it twice.
C34_RaisingAppendWritesNowhere ==
  [][(~probe'.called /\ last_append'.raised)
       => (/\ crypto_calls' = crypto_calls
           /\ excel_rows' = excel_rows
           /\ sheets_rows' = sheets_rows)]_vars

C36_ConnectTrueSetsTheFlag ==
  (/\ sup.pc = "idle"
   /\ sup.op \in {"connect", "auto_reconnect"}
   /\ sup.result = TRUE)
    => sup.is_connected

\* C37 (SpecShutdown): with one message ever received and its handling in
\* flight when shutdown_gracefully starts, the drain and the event handler
\* together append at most one call, and the event handler's
\* pending_messages.remove(message) does not raise.
C37_InFlightMessageWrittenOnce ==
  (n_events = 1 /\ sup.sd_pending # {})
    => /\ Len(crypto_calls) <= 1
       /\ \A t \in sup.sd_pending : tasks[t].outcome # "ValueError"

\* C38 (SpecJob): a step of the live handler, store_raw_message included,
\* leaves is_classified and classification_result of every raw row that
\* already exists as they were.
C38_StoringAgainKeepsTheRow ==
  [][bf' = bf
       => \A r \in raw_messages : \A r2 \in raw_messages' :
            RawKey(r2) = RawKey(r)
              => /\ r2.is_classified = r.is_classified
                 /\ r2.classification_result = r.classification_result]_vars

\* C39 (SpecSupervisor): a run_with_reliability() whose connect() succeeded
\* has set up the message handler and returns True.
C39_ReliableRunSucceeds ==
  (/\ sup.pc = "idle"
   /\ sup.op = "run_with_reliability"
   /\ sup.last_connect \in {"authorized", "unauthorized", "already"})
    => (sup.result = TRUE /\ sup.registered)

\* C40 (SpecBackfill): in crypto_calls, whatever the live handler and the
\* job have written, the linked_crypto_call_id of a row is no link or the id
\* of a row with a smaller id than the row's own.
C40_LinksPointBackwards ==
  \A i \in 1..Len(crypto_calls) :
    /\ crypto_calls[i].linked_crypto_call_id < crypto_calls[i].id
    /\ crypto_calls[i].linked_crypto_call_id # NullId
         => \E j \in 1..Len(crypto_calls) :
              crypto_calls[j].id = crypto_calls[i].linked_crypto_call_id

\* The job has inserted a linked row (it writes the chat title "Bt", the
\* live handler the configured name "B").
C40_Witness ==
  \E i \in 1..Len(crypto_calls) :
    /\ crypto_calls[i].linked_crypto_call_id # NullId
    /\ crypto_calls[i].channel_name = "Bt"

====
